---- MODULE Spec2Model ----
(***************************************************************************)
(* Vector-calculus operators of SympyVCal.py (gradient, divergence, curl,  *)
(* Laplacian in cylindrical and spherical coordinates).                    *)
(*                                                                         *)
(* A symbolic expression is kept in expanded form: a finite set of terms,  *)
(* each term an integer coefficient k, an exponent tuple e over the        *)
(* symbols rho, theta, z, r, phi and over sin(theta), cos(theta), and a    *)
(* base: "1" for a scalar term, or the base vector ("Cy.i", "S.k", ...)    *)
(* the term is a measure of.  No two terms of an expression share (e,      *)
(* base) and no coefficient is 0, so two expressions are the same set      *)
(* exactly when they expand to the same sum.                               *)
(***************************************************************************)
EXTENDS Integers, FiniteSets, Sequences, TLC

\* Largest exponent of a symbol in a caller-built monomial.
MaxPow == 2
\* Largest constant factor in a caller-built linear combination.
MaxConst == 1

VARIABLES
    Cy, S,                  \* the coordinate systems (module level)
    rho, phi, z, r, theta,  \* the symbols (module level)
    input,                  \* the expression the caller has built
    kind,                   \* "scalar" or "vector": what input is
    parts,                  \* how the caller built input
    op,                     \* the operator called last ("none" before any)
    src,                    \* where its argument came from
    arg,                    \* its argument
    out,                    \* what it returned (or the error it raised)
    first                   \* one earlier call, remembered

vars == <<Cy, S, rho, phi, z, r, theta, input, kind, parts, op, src, arg, out, first>>

-----------------------------------------------------------------------------
(* Expressions *)

SymbolNames == {"rho", "theta", "z", "r", "phi"}

\* the place of each symbol, and of sin(theta) and cos(theta), in an exponent tuple
Slot == [rho |-> 1, theta |-> 2, z |-> 3, r |-> 4, phi |-> 5, sin |-> 6, cos |-> 7]

E0 == <<0, 0, 0, 0, 0, 0, 0>>

Zero == {}

Const(c) == IF c = 0 THEN {} ELSE {[k |-> c, e |-> E0, base |-> "1"]}

One == Const(1)

\* sp.symbols / Symbol(name): a symbol is its name
Symbol(name) == {[k |-> 1, e |-> [E0 EXCEPT ![Slot[name]] = 1], base |-> "1"]}

\* the name of a symbol
NameOf(x) == CHOOSE n \in SymbolNames : x = Symbol(n)

\* sympy.sin applied to a symbol; the expressions here hold the sine of theta only
sin(x) == CASE x = Symbol("theta") -> {[k |-> 1, e |-> [E0 EXCEPT ![Slot.sin] = 1], base |-> "1"]}

cos(x) == CASE x = Symbol("theta") -> {[k |-> 1, e |-> [E0 EXCEPT ![Slot.cos] = 1], base |-> "1"]}

Keys(p) == {<<t.e, t.base>> : t \in p}

CoefOf(p, key) ==
    IF \E t \in p : <<t.e, t.base>> = key
    THEN (CHOOSE t \in p : <<t.e, t.base>> = key).k
    ELSE 0

\* Add.__new__: like terms are collected, zero terms dropped
Add(p, q) ==
    {t \in {[k |-> CoefOf(p, key) + CoefOf(q, key), e |-> key[1], base |-> key[2]] :
                key \in Keys(p) \cup Keys(q)} : t.k # 0}

Scale(c, p) == IF c = 0 THEN {} ELSE {[t EXCEPT !.k = c * @] : t \in p}

Neg(p) == Scale(-1, p)

Sub(p, q) == Add(p, Neg(q))

AddExp(e1, e2) == [n \in DOMAIN E0 |-> e1[n] + e2[n]]

\* a scalar term times an expression (the base vector, if any, is the expression's)
MulTerm(t, q) == {[k |-> t.k * u.k, e |-> AddExp(t.e, u.e), base |-> u.base] : u \in q}

RECURSIVE Mul(_, _)
\* Mul.__new__ followed by expansion: powers of the same base are combined
Mul(p, q) ==
    IF p = {} THEN {}
    ELSE LET t == CHOOSE t \in p : TRUE
         IN  Add(MulTerm(t, q), Mul(p \ {t}, q))

RECURSIVE Pow(_, _)
\* p**n for a single-term p and any integer n
Pow(p, n) ==
    IF n = 0 THEN One
    ELSE IF n > 0 THEN Mul(p, Pow(p, n - 1))
    ELSE {[k |-> t.k, e |-> [m \in DOMAIN E0 |-> n * t.e[m]], base |-> t.base] : t \in p}

Inv(p) == Pow(p, -1)

\* expr.free_symbols
FreeSymbols(p) ==
    {n \in SymbolNames : \E t \in p : t.e[Slot[n]] # 0}
        \cup (IF \E t \in p : t.e[Slot.sin] # 0 \/ t.e[Slot.cos] # 0 THEN {"theta"} ELSE {})

\* derivative of one term: power rule, and the chain rule through sin, cos of theta
DiffTerm(t, v) ==
    {u \in  {[t EXCEPT !.k = @ * t.e[Slot[v]], !.e[Slot[v]] = @ - 1]}
       \cup (IF v = "theta"
             THEN {[t EXCEPT !.k = @ * t.e[Slot.sin],
                             !.e[Slot.sin] = @ - 1, !.e[Slot.cos] = @ + 1],
                   [t EXCEPT !.k = -(@ * t.e[Slot.cos]),
                             !.e[Slot.cos] = @ - 1, !.e[Slot.sin] = @ + 1]}
             ELSE {}) : u.k # 0}

RECURSIVE DiffByName(_, _)
DiffByName(p, v) ==
    IF p = {} THEN {}
    ELSE LET t == CHOOSE t \in p : TRUE
         IN  Add(DiffTerm(t, v), DiffByName(p \ {t}, v))

\* sympy.diff(expr, symbol)
diff(p, x) == DiffByName(p, NameOf(x))

ValueError == {[raise |-> "ValueError"]}

Raised(x) == x = ValueError

\* sympy.diff(expr) with no symbol (Derivative.__new__): the one free symbol of
\* expr is the variable; a number differentiates to 0; otherwise ValueError
diff1(p) ==
    LET variables == FreeSymbols(p)
    IN  IF Cardinality(variables) = 1
        THEN DiffByName(p, CHOOSE v \in variables : TRUE)
        ELSE IF variables = {} THEN Zero
        ELSE ValueError

-----------------------------------------------------------------------------
(* Vectors: sums of measure * base vector *)

BaseVector(sys, c) == {[k |-> 1, e |-> E0, base |-> sys \o "." \o c]}

\* CoordSys3D: a named system with its three base vectors
CoordSys3D(name) ==
    [name |-> name, i |-> BaseVector(name, "i"), j |-> BaseVector(name, "j"),
     k |-> BaseVector(name, "k")]

\* measure * base vector
VMul(p, bv) == Mul(p, bv)

\* vec.dot(base vector) for a vector of the base vector's own system
dot(vec, bv) ==
    LET b == (CHOOSE t \in bv : TRUE).base
    IN  {[t EXCEPT !.base = "1"] : t \in {u \in vec : u.base = b}}

-----------------------------------------------------------------------------
(* Cylindrical vector calculus *)

\* Cy_grad with the angular derivative taken in phi (the symbol line 17 names)
Cy_grad_phi(fun) ==
    LET rho_term == diff(fun, rho)
        theta_term == Mul(Inv(rho), diff(fun, phi))
        z_term == diff(fun, z)
    IN  Add(Add(VMul(rho_term, Cy.i), VMul(theta_term, Cy.j)), VMul(z_term, Cy.k))

Cy_grad(fun) ==
    LET rho_term == diff(fun, rho)
        theta_term == Mul(Inv(rho), diff(fun, theta))
        z_term == diff(fun, z)
    IN  Add(Add(VMul(rho_term, Cy.i), VMul(theta_term, Cy.j)), VMul(z_term, Cy.k))

Cy_div(vec) ==
    LET i == dot(vec, Cy.i)
        j == dot(vec, Cy.j)
        k == dot(vec, Cy.k)
        rho_term == Mul(Inv(rho), diff(Mul(i, rho), rho))
        theta_term == Mul(Inv(rho), diff(j, theta))
        z_term == diff(k, z)
    IN  Add(Add(rho_term, theta_term), z_term)

Cy_curl(vec) ==
    LET i == dot(vec, Cy.i)
        j == dot(vec, Cy.j)
        k == dot(vec, Cy.k)
        rho_term == Mul(Inv(rho), Sub(diff(k, theta), diff(j, z)))
        d == diff1(Mul(rho, j))
        theta_term == Sub(diff(i, z), diff(k, rho))
        z_term == Mul(Inv(rho), Sub(d, diff(i, theta)))
    IN  IF Raised(d) THEN ValueError
        ELSE Add(Add(VMul(rho_term, Cy.i), VMul(theta_term, Cy.j)), VMul(z_term, Cy.k))

\* Cy_lapl with the factor rho left out of the radial derivative
Cy_lapl_norho(fun) ==
    LET rho_term == Mul(Inv(rho), diff(diff(fun, rho), rho))
        theta_term == Mul(Inv(Pow(rho, 2)), diff(diff(fun, theta), theta))
        z_term == diff(diff(fun, z), z)
    IN  Add(Add(rho_term, theta_term), z_term)

Cy_lapl(fun) ==
    LET rho_term == Mul(Inv(rho), diff(Mul(rho, diff(fun, rho)), rho))
        theta_term == Mul(Inv(Pow(rho, 2)), diff(diff(fun, theta), theta))
        z_term == diff(diff(fun, z), z)
    IN  Add(Add(rho_term, theta_term), z_term)

-----------------------------------------------------------------------------
(* Spherical vector calculus *)

\* S_grad with + typed for * in the theta term
S_grad_plus(fun) ==
    LET radial_term == diff(fun, r)
        theta_term == Add(Inv(r), diff(fun, theta))
        phi_term == Mul(Inv(Mul(r, sin(theta))), diff(fun, phi))
    IN  Add(Add(VMul(radial_term, S.i), VMul(theta_term, S.j)), VMul(phi_term, S.k))

S_grad(fun) ==
    LET radial_term == diff(fun, r)
        theta_term == Mul(Inv(r), diff(fun, theta))
        phi_term == Mul(Inv(Mul(r, sin(theta))), diff(fun, phi))
    IN  Add(Add(VMul(radial_term, S.i), VMul(theta_term, S.j)), VMul(phi_term, S.k))

S_div(vec) ==
    LET i == dot(vec, S.i)
        j == dot(vec, S.j)
        k == dot(vec, S.k)
        radial_term == Mul(Inv(Pow(r, 2)), diff(Mul(Pow(r, 2), i), r))
        d == diff1(Mul(sin(theta), j))
        theta_term == Mul(Inv(Mul(r, sin(theta))), d)
        phi_term == Mul(Inv(Mul(r, sin(theta))), diff(k, phi))
    IN  IF Raised(d) THEN ValueError
        ELSE Add(Add(radial_term, theta_term), phi_term)

S_curl(vec) ==
    LET i == dot(vec, S.i)
        j == dot(vec, S.j)
        k == dot(vec, S.k)
        radial_term == Mul(Inv(Mul(r, sin(theta))),
                           Sub(diff(Mul(k, sin(theta)), theta), diff(j, phi)))
        theta_term == Mul(Inv(r), Sub(Mul(Inv(sin(theta)), diff(i, r)), diff(Mul(r, k), r)))
        phi_term == Mul(Inv(r), Sub(diff(Mul(r, j), r), diff(i, theta)))
    IN  Add(Add(VMul(radial_term, S.i), VMul(theta_term, S.j)), VMul(phi_term, S.k))

\* S_lapl with the cylindrical radial term (r for r**2)
S_lapl_r(fun) ==
    LET dif1 == diff(fun, r)
        radial_term == Mul(Inv(r), diff(Mul(r, dif1), r))
        dif2 == diff(fun, theta)
        theta_term == Mul(Inv(Mul(Pow(r, 2), sin(theta))), diff(Mul(sin(theta), dif2), theta))
        dif3 == diff(fun, phi)
        phi_term == Mul(Inv(Mul(Pow(r, 2), Pow(sin(theta), 2))), diff(dif3, phi))
    IN  Add(Add(radial_term, theta_term), phi_term)

S_lapl(fun) ==
    LET dif1 == diff(fun, r)
        radial_term == Mul(Inv(Pow(r, 2)), diff(Mul(Pow(r, 2), dif1), r))
        dif2 == diff(fun, theta)
        theta_term == Mul(Inv(Mul(Pow(r, 2), sin(theta))), diff(Mul(sin(theta), dif2), theta))
        dif3 == diff(fun, phi)
        phi_term == Mul(Inv(Mul(Pow(r, 2), Pow(sin(theta), 2))), diff(dif3, phi))
    IN  Add(Add(radial_term, theta_term), phi_term)

-----------------------------------------------------------------------------
(* The caller: builds one expression, then calls operators on it or on    *)
(* what the call before returned                                          *)

Consts == (-1)..MaxConst

Monomial(x, i, y, j, w, k) == Mul(Mul(Pow(x, i), Pow(y, j)), Pow(w, k))

\* monomials over rho, theta, z
CyFns ==
    {Monomial(Symbol("rho"), i, Symbol("theta"), j, Symbol("z"), k) :
        i \in 0..MaxPow, j \in 0..MaxPow, k \in 0..MaxPow}

\* r^n * theta^j * phi^k * cos(theta)^c
SFns ==
    {Mul(Monomial(Symbol("r"), n, Symbol("theta"), j, Symbol("phi"), k),
         Pow(cos(Symbol("theta")), c)) :
        n \in (-MaxPow)..MaxPow, j \in 0..1, k \in 0..1, c \in 0..1}

\* rho^2 * z, rho^2 * theta, r^2 * cos(theta), 1/r
TestFns ==
    {Monomial(Symbol("rho"), 2, Symbol("theta"), 0, Symbol("z"), 1),
     Monomial(Symbol("rho"), 2, Symbol("theta"), 1, Symbol("z"), 0),
     Mul(Pow(Symbol("r"), 2), cos(Symbol("theta"))),
     Inv(Symbol("r"))}

\* a*f + b*g
LinComb(a, f, b, g) == Add(Scale(a, f), Scale(b, g))

Components(names) ==
    {Zero} \cup {Pow(Symbol(v), n) : v \in names, n \in 0..MaxPow}

\* V1*sys.i + V2*sys.j + V3*sys.k
Vector(sys, V1, V2, V3) == Add(Add(VMul(V1, sys.i), VMul(V2, sys.j)), VMul(V3, sys.k))

CyVecs ==
    LET C == Components({"rho", "theta", "z"})
    IN  {Vector(CoordSys3D("Cy"), V1, V2, V3) : V1 \in C, V2 \in C, V3 \in C}

SVecs ==
    LET C == Components({"r", "theta", "phi"})
    IN  {Vector(CoordSys3D("S"), V1, V2, V3) : V1 \in C, V2 \in C, V3 \in C}

\* every term of vec is a measure of a base vector of sys
InSystem(vec, sys) ==
    \A t \in vec : \E c \in {sys.i, sys.j, sys.k} : \A u \in c : t.base = u.base

NoCall == [op |-> "none"]
Unobserved == [op |-> "off"]

\* module load (lines 9-20)
ModuleInit ==
    /\ Cy = CoordSys3D("Cy")
    /\ S = CoordSys3D("S")
    /\ rho = Symbol("rho")
    /\ z = Symbol("z")
    /\ r = Symbol("r")
    /\ theta = Symbol("theta")
    /\ phi = Symbol("phi")

\* the caller builds a*f + b*g, or a vector
BuildInput(cs, fs, gs, vs) ==
    \/ \E a \in cs, b \in cs, f \in fs, g \in gs :
          /\ input = LinComb(a, f, b, g)
          /\ kind = "scalar"
          /\ parts = [a |-> a, f |-> f, b |-> b, g |-> g]
    \/ \E V \in vs :
          /\ input = V
          /\ kind = "vector"
          /\ parts = [a |-> 1, f |-> V, b |-> 0, g |-> Zero]

\* vectors whose first two measures are test functions
TestVecs ==
    LET C == {Zero} \cup TestFns
    IN  {Vector(CoordSys3D(n), V1, V2, Zero) : n \in {"Cy", "S"}, V1 \in C, V2 \in C}

NoCallYet ==
    /\ op = "none"
    /\ src = "none"
    /\ arg = Zero
    /\ out = Zero

Init ==
    /\ ModuleInit
    /\ BuildInput(Consts, CyFns \cup SFns, TestFns, CyVecs \cup SVecs)
    /\ NoCallYet
    /\ first = Unobserved

\* the same program, with one call of the run remembered, on the test functions
InitObserved ==
    /\ ModuleInit
    /\ BuildInput(Consts, TestFns, TestFns, TestVecs)
    /\ NoCallYet
    /\ first = NoCall

Returns(name) ==
    IF name \in {"Cy_grad", "Cy_curl", "S_grad", "S_curl"} THEN "vector" ELSE "scalar"

\* the well-formed arguments at hand: the caller's input, or what the call
\* before returned when that call was on the input
ScalarArgs ==
    (IF kind = "scalar" THEN {[val |-> input, src |-> "input"]} ELSE {})
      \cup (IF /\ op # "none"
               /\ src = "input"
               /\ Returns(op) = "scalar"
               /\ ~Raised(out)
            THEN {[val |-> out, src |-> op]}
            ELSE {})

VectorArgs(sys) ==
    (IF kind = "vector" /\ InSystem(input, sys)
     THEN {[val |-> input, src |-> "input"]}
     ELSE {})
      \cup (IF /\ op # "none"
               /\ src = "input"
               /\ Returns(op) = "vector"
               /\ ~Raised(out)
               /\ InSystem(out, sys)
            THEN {[val |-> out, src |-> op]}
            ELSE {})

\* a Laplacian that rebinds the module-level r
ModuleAfterRebind(name) ==
    [Cy |-> Cy, S |-> S, rho |-> rho, z |-> z, theta |-> theta, phi |-> phi,
     r |-> IF name \in {"S_lapl", "Cy_lapl"} THEN rho ELSE r]

\* the module-level names after a call of operator name: the bodies assign
\* only local names (rho_term, i, j, k, dif, ...) and hold no global statement
ModuleAfter(name) ==
    [Cy |-> Cy, S |-> S, rho |-> rho, z |-> z, r |-> r, theta |-> theta, phi |-> phi]

\* the remembered call: any one call of an observed run, and whether a
\* different call has been made since
Remember(name, x, result) ==
    IF first = Unobserved THEN {first}
    ELSE IF first = NoCall
    THEN {NoCall, [op |-> name, arg |-> x, out |-> result, between |-> FALSE]}
    ELSE {[first EXCEPT !.between = @ \/ first.op # name \/ first.arg # x]}

Call(name, a, result) ==
    /\ op' = name
    /\ src' = a.src
    /\ arg' = a.val
    /\ out' = result
    /\ first' \in Remember(name, a.val, result)
    /\ LET m == ModuleAfter(name)
       IN  /\ Cy' = m.Cy
           /\ S' = m.S
           /\ rho' = m.rho
           /\ z' = m.z
           /\ r' = m.r
           /\ theta' = m.theta
           /\ phi' = m.phi
    /\ UNCHANGED <<input, kind, parts>>

CallCyGrad == \E a \in ScalarArgs : Call("Cy_grad", a, Cy_grad(a.val))

CallCyDiv == \E a \in VectorArgs(Cy) : Call("Cy_div", a, Cy_div(a.val))

CallCyCurl == \E a \in VectorArgs(Cy) : Call("Cy_curl", a, Cy_curl(a.val))

CallCyLapl == \E a \in ScalarArgs : Call("Cy_lapl", a, Cy_lapl(a.val))

CallSGrad == \E a \in ScalarArgs : Call("S_grad", a, S_grad(a.val))

CallSDiv == \E a \in VectorArgs(S) : Call("S_div", a, S_div(a.val))

CallSCurl == \E a \in VectorArgs(S) : Call("S_curl", a, S_curl(a.val))

CallSLapl == \E a \in ScalarArgs : Call("S_lapl", a, S_lapl(a.val))

Next ==
    \/ CallCyGrad
    \/ CallCyDiv
    \/ CallCyCurl
    \/ CallCyLapl
    \/ CallSGrad
    \/ CallSDiv
    \/ CallSCurl
    \/ CallSLapl

Spec == Init /\ [][Next]_vars

SpecObserved == InitObserved /\ [][Next]_vars

-----------------------------------------------------------------------------
(* The closed forms of the specification, over the symbols by name *)

RHO == Symbol("rho")
THETA == Symbol("theta")
ZED == Symbol("z")
R == Symbol("r")
PHI == Symbol("phi")
SINTHETA == sin(Symbol("theta"))

D(p, name) == DiffByName(p, name)

Measure(V, sys, c) == dot(V, BaseVector(sys, c))

FormulaCyGrad(f) ==
    Vector(CoordSys3D("Cy"), D(f, "rho"), Mul(Inv(RHO), D(f, "theta")), D(f, "z"))

FormulaSGrad(f) ==
    Vector(CoordSys3D("S"), D(f, "r"), Mul(Inv(R), D(f, "theta")),
           Mul(Inv(Mul(R, SINTHETA)), D(f, "phi")))

FormulaCyCurl(V) ==
    LET Vrho == Measure(V, "Cy", "i")
        Vtheta == Measure(V, "Cy", "j")
        Vz == Measure(V, "Cy", "k")
    IN  Vector(CoordSys3D("Cy"),
               Mul(Inv(RHO), Sub(D(Vz, "theta"), D(Vtheta, "z"))),
               Sub(D(Vrho, "z"), D(Vz, "rho")),
               Mul(Inv(RHO), Sub(D(Mul(RHO, Vtheta), "rho"), D(Vrho, "theta"))))

FormulaSDiv(V) ==
    LET Vr == Measure(V, "S", "i")
        Vtheta == Measure(V, "S", "j")
        Vphi == Measure(V, "S", "k")
    IN  Add(Add(Mul(Inv(Pow(R, 2)), D(Mul(Pow(R, 2), Vr), "r")),
                Mul(Inv(Mul(R, SINTHETA)), D(Mul(SINTHETA, Vtheta), "theta"))),
            Mul(Inv(Mul(R, SINTHETA)), D(Vphi, "phi")))

FormulaSCurl(V) ==
    LET Vr == Measure(V, "S", "i")
        Vtheta == Measure(V, "S", "j")
        Vphi == Measure(V, "S", "k")
    IN  Vector(CoordSys3D("S"),
               Mul(Inv(Mul(R, SINTHETA)),
                   Sub(D(Mul(SINTHETA, Vphi), "theta"), D(Vtheta, "phi"))),
               Mul(Inv(R), Sub(Mul(Inv(SINTHETA), D(Vr, "phi")), D(Mul(R, Vphi), "r"))),
               Mul(Inv(R), Sub(D(Mul(R, Vtheta), "r"), D(Vr, "theta"))))

\* the cylindrical Laplacian of one polynomial term c * rho^i * theta^j * z^k,
\* substituted by hand: c*i^2*rho^(i-2)*theta^j*z^k
\*   + c*j*(j-1)*rho^(i-2)*theta^(j-2)*z^k + c*k*(k-1)*rho^i*theta^j*z^(k-2)
TermCyLapl(t) ==
    LET i == t.e[Slot.rho]
        j == t.e[Slot.theta]
        k == t.e[Slot.z]
    IN  {u \in {[t EXCEPT !.k = @ * i * i, !.e[Slot.rho] = @ - 2],
                [t EXCEPT !.k = @ * j * (j - 1), !.e[Slot.rho] = @ - 2,
                          !.e[Slot.theta] = @ - 2],
                [t EXCEPT !.k = @ * k * (k - 1), !.e[Slot.z] = @ - 2]} : u.k # 0}

RECURSIVE FormulaCyLapl(_)
FormulaCyLapl(f) ==
    IF f = {} THEN {}
    ELSE LET t == CHOOSE t \in f : TRUE
         IN  Add(TermCyLapl(t), FormulaCyLapl(f \ {t}))

\* no sine or cosine in f
Polynomial(f) == \A t \in f : t.e[Slot.sin] = 0 /\ t.e[Slot.cos] = 0

Rho2Z == Mul(Pow(RHO, 2), ZED)
Rho2Theta == Mul(Pow(RHO, 2), THETA)
R2CosTheta == Mul(Pow(R, 2), cos(THETA))

-----------------------------------------------------------------------------
(* Claims *)

\* C1: every call of S_curl returns the closed form of the spherical curl, whose
\* e_theta measure differentiates Vr with respect to phi.
C1_SCurlClosedForm == op = "S_curl" => out = FormulaSCurl(arg)

\* C2: S_curl applied to what S_grad returned is the zero vector.
C2_CurlGradZero == (op = "S_curl" /\ src = "S_grad") => out = Zero

\* C3: every call of S_div on a well-formed vector returns, without raising,
\* the closed form of the spherical divergence.
C3_SDivClosedForm == op = "S_div" => (~Raised(out) /\ out = FormulaSDiv(arg))

\* C4: every call of Cy_curl on a well-formed vector returns, without raising,
\* the closed form of the cylindrical curl.
C4_CyCurlClosedForm == op = "Cy_curl" => (~Raised(out) /\ out = FormulaCyCurl(arg))

\* C5: every call of Cy_grad returns df/drho e_rho + (1/rho) df/dtheta e_theta
\* + df/dz e_z, the angular measure differentiating in theta; and
\* Cy_grad(rho^2 * z) is 2*rho*z e_rho + 0 e_theta + rho^2 e_z.
C5_CyGradClosedForm ==
    op = "Cy_grad" =>
        /\ out = FormulaCyGrad(arg)
        /\ arg = Rho2Z =>
              out = Vector(CoordSys3D("Cy"), Scale(2, Mul(RHO, ZED)), Zero, Pow(RHO, 2))

C5_Witness ==
    /\ op = "Cy_grad"
    /\ arg = LinComb(1, Rho2Z, 1, Rho2Theta)
    /\ Measure(out, "Cy", "j") = RHO
    /\ Measure(out, "Cy", "i") = Add(Scale(2, Mul(RHO, ZED)), Scale(2, Mul(RHO, THETA)))

\* C6: on every polynomial, Cy_lapl returns what substituting the polynomial
\* into the closed form of the cylindrical Laplacian gives, term by term.
C6_CyLaplClosedForm == (op = "Cy_lapl" /\ Polynomial(arg)) => out = FormulaCyLapl(arg)

C6_Witness ==
    /\ op = "Cy_lapl"
    /\ arg = Rho2Theta
    /\ out = Scale(4, THETA)

\* C7: S_lapl(r^n) is n*(n+1)*r^(n-2) for every n of the range; S_lapl(1/r) is 0.
C7_SLaplRadialPower ==
    \A n \in (-MaxPow)..MaxPow :
        (op = "S_lapl" /\ arg = Pow(R, n)) => out = Scale(n * (n + 1), Pow(R, n - 2))

C7_Witness ==
    /\ op = "S_lapl"
    /\ arg = Inv(R)
    /\ out = Zero

\* C8: the gradient of a*f + b*g is a times the gradient of f plus b times the
\* gradient of g, in both coordinate systems.
C8_GradLinear ==
    /\ (op = "Cy_grad" /\ src = "input") =>
          out = LinComb(parts.a, Cy_grad(parts.f), parts.b, Cy_grad(parts.g))
    /\ (op = "S_grad" /\ src = "input") =>
          out = LinComb(parts.a, S_grad(parts.f), parts.b, S_grad(parts.g))

C8_Witness ==
    /\ op = "S_grad"
    /\ src = "input"
    /\ parts.a = -1
    /\ parts.b = 1
    /\ parts.f = Mul(Inv(R), PHI)
    /\ parts.g = R2CosTheta
    /\ Measure(out, "S", "i") = Add(Mul(Pow(R, -2), PHI), Scale(2, Mul(R, cos(THETA))))

C10_DivGradIsLapl ==
    /\ (op = "S_div" /\ src = "S_grad") => (~Raised(out) /\ out = S_lapl(input))
    /\ (op = "Cy_div" /\ src = "Cy_grad") => (~Raised(out) /\ out = Cy_lapl(input))

====
